---- MODULE Spec2Model ----
(***************************************************************************)
(* WawaChat: the model session of WawaChatApplication (wawachat-v1.5.py)   *)
(* and the model cache of ModelManager (model_manager.py).                  *)
(*                                                                         *)
(* Threads of the program and how they appear here:                        *)
(*   - the Tk main loop: send_message, on_model_changed, the callbacks     *)
(*     scheduled with window.after (after_queue), the heartbeat timer;     *)
(*   - the initialize_model thread (load_pc) and the                       *)
(*     track_download_progress thread it starts (progress_pc);             *)
(*   - per sent message, a generate_and_display_response thread and the    *)
(*     process_response thread it starts (req[r]).                         *)
(* Each action is one step of one thread between two accesses to shared    *)
(* state.                                                                  *)
(***************************************************************************)
EXTENDS Integers, Sequences, FiniteSets, TLC

\* Number of messages the user sends in a run.
MaxRequests == 2
\* Number of callbacks that may be pending in Tk's after queue.
MaxQueue == 2
\* Number of load_data threads of the cache manager that may run at a time.
MaxLoads == 1

\* Characters of a generated text.
MaxText == 6

\* self.pipe = None
None == "None"

\* Two of the names of DEFAULT_MODELS.
Models == {"TinyLlama/TinyLlama-1.1B-Chat-v1.0", "facebook/opt-125m"}

Requests == 1..MaxRequests

\* The load job's tag on a status event; a request's tag is its index.
LoadJob == 0

\* The tag of the callbacks the cache manager window schedules.
ManagerJob == MaxRequests + 1

\* What the user may type: a whitespace-only text or a text with content.
Inputs == {"blank", "text"}

VARIABLES
    pipe,                  \* self.pipe: None or the loaded pipeline (its model name)
    model_initialized,     \* self.model_initialized (threading.Event)
    download_status,       \* self.download_status
    load_pc,               \* position of the initialize_model thread
    model_name,            \* initialize_model's local model_name
    load_started,          \* number of initialize_model threads started
    pipelines,             \* number of pipelines the runtime has built
    progress_pc,           \* position of the track_download_progress thread
    selected_model,        \* self.selected_model (tk.StringVar)
    config_model,          \* self.config["model"]
    chat_history,          \* self.chat_history: sequence of turns
    req,                   \* req[r]: position of the threads serving message r
    heartbeat,             \* heartbeat[r]: the update_generation_status timer of r
    after_queue,           \* callbacks scheduled with window.after(0, ...), in order
    status_bar,            \* text of self.status_bar
    conversation_history,  \* content of the self.conversation_history Text widget
    cache,                 \* (repo_id, revision) entries under the cache directory
    cache_dir_exists,      \* os.path.exists(self.cache_dir)
    manager_open,          \* a ModelManagerUI window is open
    mm_result,             \* the (success, message) pair a ModelManager call returned
    settings,              \* self.settings: the text of each numeric Entry
    boolean_settings,      \* self.boolean_settings: the text of each Combobox
    include_settings,      \* self.include_settings: the "Include" checkboxes
    parameters,            \* what get_generation_parameters returned last
    size_on_disk,          \* size_on_disk[e]: bytes of the files of cache entry e
    total_size_label,      \* text of self.total_size_label: << >> is "Calculating..."
    tree,                  \* rows of self.tree, in the order they were inserted
    status_var,            \* self.status_var of the cache manager window
    load_data,             \* load_data[i]: position of a load_data thread
    scan_ok,               \* scan_cache_dir works on an existing cache directory
    stray_bytes,           \* bytes of the files under the directory outside any revision
    unreadable,            \* cache entries whose revision data cannot be read
    export_state,          \* the export file: "absent", "truncated" or "complete"
    export_file,           \* the rows of the JSON array in a complete export file
    config,                \* CredentialsManager.config
    keyring_store,         \* the password the OS keyring holds for WawaChat
    keyring_available,     \* the calls of the keyring module do not raise
    cred_result,           \* the (success, message) pair a CredentialsManager call returned
    warmup_failed,         \* warmup_model caught an exception of the warmup inference
    response_text,         \* response[0]['generated_text']: what the runtime generates
    current_step,          \* FirstRunWizard.current_step
    wizard_open,           \* the dialog of the FirstRunWizard exists
    on_complete            \* what on_complete_callback was called with, "none" before

loadVars == <<pipe, model_initialized, download_status, load_pc, model_name,
              load_started, pipelines, progress_pc>>
selVars == <<selected_model, config_model>>
genVars == <<chat_history, req, heartbeat>>
screenVars == <<status_bar, conversation_history>>
cacheVars == <<cache, cache_dir_exists, manager_open, mm_result>>
paramVars == <<settings, boolean_settings, include_settings, parameters>>
widgetVars == <<total_size_label, tree, status_var>>
scanVars == <<scan_ok, stray_bytes, unreadable>>
fileVars == <<export_state, export_file>>
managerVars == <<size_on_disk, widgetVars, load_data, scanVars, fileVars>>

credVars == <<config, keyring_store, keyring_available, cred_result>>
runtimeVars == <<warmup_failed, response_text>>
wizardVars == <<current_step, wizard_open, on_complete>>

vars == <<loadVars, selVars, genVars, after_queue, screenVars, cacheVars,
          paramVars, managerVars, credVars, runtimeVars, wizardVars>>

\* ------------------------------------------------------------------------
\* Scheduling on the Tk main loop

\* window.after(0, cb): cb joins the queue of the main loop. The queue is
\* bounded here: a thread that finds it full waits.
Room(n) == Len(after_queue) + n <= MaxQueue

\* update_status / update_ui_with_status: the callback sets the status bar.
StatusEvent(job, kind) == [cb |-> "status", job |-> job, kind |-> kind]

\* update_conversation_history: the callback appends a line to the widget.
ConversationEvent(r) == [cb |-> "append", job |-> r, kind |-> "You"]

\* update_ui_with_response: the callback appends the AI line and sets the
\* status bar to "Model ready.".
ResponseEvent(r) == [cb |-> "response", job |-> r, kind |-> "AI"]

\* update_cache_size, scheduled by load_data: the callback sets the total
\* size label.
CacheSizeEvent(size) == [cb |-> "cache_size", job |-> ManagerJob, kind |-> size]

\* update_ui_with_models, scheduled by load_data: the callback inserts the
\* rows into the tree and sets the status of the manager window.
ModelsEvent(models) == [cb |-> "models", job |-> ManagerJob, kind |-> models]

\* What running the callback h does to the widgets.
Callback(h) ==
    /\ status_bar' = CASE h.cb = "status" -> <<h.job, h.kind>>
                       [] h.cb = "response" -> <<h.job, "Model ready.">>
                       [] OTHER -> status_bar
    /\ conversation_history' =
          IF h.cb \in {"append", "response"}
          THEN Append(conversation_history, <<h.kind, h.job>>)
          ELSE conversation_history
    /\ total_size_label' =
          IF h.cb = "cache_size" THEN <<h.kind>> ELSE total_size_label
    /\ tree' = IF h.cb = "models" THEN tree \o h.kind ELSE tree
    /\ status_var' =
          IF h.cb = "models" THEN <<"Loaded", Len(h.kind)>> ELSE status_var

\* Mutant of RunCallback: the main loop runs the newest scheduled callback.
RunCallback_newest_first ==
    /\ after_queue # << >>
    /\ after_queue' = SubSeq(after_queue, 1, Len(after_queue) - 1)
    /\ Callback(after_queue[Len(after_queue)])
    /\ UNCHANGED <<loadVars, selVars, genVars, cacheVars, paramVars,
                   size_on_disk, load_data, scanVars, fileVars,
                   credVars, runtimeVars, wizardVars>>

\* The main loop runs the oldest scheduled callback.
RunCallback ==
    /\ after_queue # << >>
    /\ after_queue' = Tail(after_queue)
    /\ Callback(Head(after_queue))
    /\ UNCHANGED <<loadVars, selVars, genVars, cacheVars, paramVars,
                   size_on_disk, load_data, scanVars, fileVars,
                   credVars, runtimeVars, wizardVars>>

\* ------------------------------------------------------------------------
\* Model load

\* initialize_model, up to the pipeline call: publishes the download status,
\* starts the progress thread and reads the selected model.
LoadStart ==
    /\ load_pc = "start"
    /\ Room(1)
    /\ after_queue' = Append(after_queue, StatusEvent(LoadJob, "downloading"))
    /\ progress_pc' = "spawned"
    /\ model_name' = selected_model
    /\ load_pc' = "pipeline"
    /\ UNCHANGED <<pipe, model_initialized, download_status, load_started,
                   pipelines, selVars, genVars, screenVars, cacheVars, paramVars, managerVars,
                   credVars, runtimeVars, wizardVars>>

\* Mutant of LoadPipelineOk: the ready flag is set as soon as the pipeline is
\* built, before the warmup.
LoadPipelineOk_sets_ready ==
    /\ load_pc = "pipeline"
    /\ pipe' = model_name
    /\ pipelines' = pipelines + 1
    /\ model_initialized' = TRUE
    /\ load_pc' = "warmup"
    /\ UNCHANGED <<download_status, model_name, load_started, progress_pc,
                   selVars, genVars, after_queue, screenVars, cacheVars, paramVars, managerVars,
                   credVars, runtimeVars, wizardVars>>

\* pipeline(...) returns: self.pipe holds the pipeline of model_name.
LoadPipelineOk ==
    /\ load_pc = "pipeline"
    /\ pipe' = model_name
    /\ pipelines' = pipelines + 1
    /\ load_pc' = "warmup"
    /\ UNCHANGED <<model_initialized, download_status, model_name, load_started,
                   progress_pc, selVars, genVars, after_queue, screenVars,
                   cacheVars, paramVars, managerVars,
                   credVars, runtimeVars, wizardVars>>

\* Mutant of LoadPipelineError: the handler also sets the ready flag.
LoadPipelineError_sets_ready ==
    /\ load_pc = "pipeline"
    /\ Room(1)
    /\ download_status' = "Error"
    /\ model_initialized' = TRUE
    /\ after_queue' = Append(after_queue, StatusEvent(LoadJob, "error"))
    /\ load_pc' = "failed"
    /\ UNCHANGED <<pipe, model_name, load_started, pipelines, progress_pc,
                   selVars, genVars, screenVars, cacheVars, paramVars, managerVars,
                   credVars, runtimeVars, wizardVars>>

\* pipeline(...) raises: the inner handler records and publishes the error;
\* the ready flag is left clear.
LoadPipelineError ==
    /\ load_pc = "pipeline"
    /\ Room(1)
    /\ download_status' = "Error"
    /\ after_queue' = Append(after_queue, StatusEvent(LoadJob, "error"))
    /\ load_pc' = "failed"
    /\ UNCHANGED <<pipe, model_initialized, model_name, load_started, pipelines,
                   progress_pc, selVars, genVars, screenVars, cacheVars, paramVars, managerVars,
                   credVars, runtimeVars, wizardVars>>

\* Mutant of LoadWarmupAndSet: an exception of the warmup inference is not
\* caught in warmup_model and reaches the handler of initialize_model.
LoadWarmupAndSet_raises ==
    /\ load_pc = "warmup"
    /\ \E warmup_ok \in BOOLEAN :
        /\ warmup_failed' = ~warmup_ok
        /\ IF warmup_ok
           THEN /\ download_status' = "Complete"
                /\ model_initialized' = TRUE
                /\ load_pc' = "announce"
                /\ UNCHANGED after_queue
           ELSE /\ Room(1)
                /\ download_status' = "Error"
                /\ after_queue' = Append(after_queue, StatusEvent(LoadJob, "error"))
                /\ load_pc' = "failed"
                /\ UNCHANGED model_initialized
    /\ UNCHANGED <<pipe, model_name, load_started, pipelines, progress_pc,
                   selVars, genVars, screenVars, cacheVars, paramVars,
                   managerVars, credVars, response_text, wizardVars>>

\* warmup_model: one inference whose failure is caught and printed; either
\* way the load is then marked complete and the ready flag is set.
LoadWarmupAndSet ==
    /\ load_pc = "warmup"
    /\ \E warmup_ok \in BOOLEAN :
        /\ warmup_failed' = ~warmup_ok
        /\ download_status' = "Complete"
        /\ model_initialized' = TRUE
    /\ load_pc' = "announce"
    /\ UNCHANGED <<pipe, model_name, load_started, pipelines, progress_pc,
                   selVars, genVars, after_queue, screenVars, cacheVars,
                   paramVars, managerVars, credVars, response_text, wizardVars>>

\* self.update_status(f"Model {model_name} ready.")
LoadAnnounce ==
    /\ load_pc = "announce"
    /\ Room(1)
    /\ after_queue' = Append(after_queue, StatusEvent(LoadJob, "ready"))
    /\ load_pc' = "done"
    /\ UNCHANGED <<pipe, model_initialized, download_status, model_name,
                   load_started, pipelines, progress_pc, selVars, genVars,
                   screenVars, cacheVars, paramVars, managerVars,
                   credVars, runtimeVars, wizardVars>>

\* track_download_progress, first statement.
ProgressStart ==
    /\ progress_pc = "spawned"
    /\ download_status' = "Downloading"
    /\ progress_pc' = "test"
    /\ UNCHANGED <<pipe, model_initialized, load_pc, model_name, load_started,
                   pipelines, selVars, genVars, after_queue, screenVars,
                   cacheVars, paramVars, managerVars,
                   credVars, runtimeVars, wizardVars>>

\* while self.download_status == "Downloading":
ProgressTest ==
    /\ progress_pc = "test"
    /\ progress_pc' = IF download_status = "Downloading" THEN "publish" ELSE "done"
    /\ UNCHANGED <<pipe, model_initialized, download_status, load_pc, model_name,
                   load_started, pipelines, selVars, genVars, after_queue,
                   screenVars, cacheVars, paramVars, managerVars,
                   credVars, runtimeVars, wizardVars>>

\* The loop body: one spinner status, then the sleep.
ProgressPublish ==
    /\ progress_pc = "publish"
    /\ Room(1)
    /\ after_queue' = Append(after_queue, StatusEvent(LoadJob, "progress"))
    /\ progress_pc' = "test"
    /\ UNCHANGED <<pipe, model_initialized, download_status, load_pc, model_name,
                   load_started, pipelines, selVars, genVars, screenVars,
                   cacheVars, paramVars, managerVars,
                   credVars, runtimeVars, wizardVars>>

\* save_config: the write of config.json succeeds, or fails and the failure
\* is published as a status.
save_config(queue, save_ok) ==
    IF save_ok THEN queue ELSE Append(queue, StatusEvent(LoadJob, "error saving config"))

\* Mutant of on_model_changed: a new name drops the pipeline and starts a
\* load of it.
on_model_changed_reload(new_model) ==
    /\ selected_model' = new_model
    /\ IF pipe # None /\ new_model # config_model
       THEN /\ Room(1)
            /\ after_queue' = Append(after_queue, StatusEvent(LoadJob, "init"))
            /\ config_model' = new_model
            /\ pipe' = None
            /\ model_initialized' = FALSE
            /\ load_pc' = "start"
            /\ load_started' = load_started + 1
            /\ UNCHANGED <<download_status, model_name, pipelines, progress_pc>>
       ELSE UNCHANGED <<after_queue, config_model, loadVars>>
    /\ UNCHANGED <<genVars, screenVars, cacheVars, paramVars, managerVars,
                   credVars, runtimeVars, wizardVars>>

\* on_model_changed: the trace on selected_model. With a pipeline loaded, a
\* new name is only recorded (status "Restart required to apply", config
\* saved); no load is started and the pipeline is kept.
on_model_changed(new_model) ==
    /\ selected_model' = new_model
    /\ IF pipe # None /\ new_model # config_model
       THEN /\ \E save_ok \in BOOLEAN :
                 /\ Room(IF save_ok THEN 1 ELSE 2)
                 /\ after_queue' = save_config(
                        Append(after_queue, StatusEvent(LoadJob, "restart required")),
                        save_ok)
            /\ config_model' = new_model
       ELSE UNCHANGED <<after_queue, config_model>>
    /\ UNCHANGED <<loadVars, genVars, screenVars, cacheVars, paramVars, managerVars,
                   credVars, runtimeVars, wizardVars>>

\* ------------------------------------------------------------------------
\* Generation

\* The end-of-sequence marker "</s>", as characters.
Marker == <<"<", "/", "s", ">">>

\* The positions at which the marker starts in text.
MarkerAt(text) ==
    {i \in 1 .. Len(text) - 3 : SubSeq(text, i, i + 3) = Marker}

\* Mutant of trim_response: the text is cut after the first marker.
trim_response_keeps_marker(text) ==
    IF MarkerAt(text) = {}
    THEN text
    ELSE SubSeq(text, 1, (CHOOSE i \in MarkerAt(text) :
                             \A j \in MarkerAt(text) : i <= j) + 3)

\* trim_response: response_text.split("</s>")[0], the text before the first
\* marker, or all of it without a marker.
trim_response(text) ==
    IF MarkerAt(text) = {}
    THEN text
    ELSE SubSeq(text, 1, (CHOOSE i \in MarkerAt(text) :
                             \A j \in MarkerAt(text) : i <= j) - 1)

UserTurn(r) == [role |-> "user", job |-> r]
AssistantTurn(r) ==
    [role |-> "assistant", job |-> r, content |-> trim_response(response_text)]

\* send_message: a blank input returns at once; otherwise the line and the
\* status are scheduled and a generate_and_display_response thread starts.
\* Messages are numbered in the order they are sent.
send_message(r, new_message) ==
    /\ req[r] = "unsent"
    /\ \A q \in Requests : q < r => req[q] # "unsent"
    /\ IF new_message = "blank"
       THEN UNCHANGED <<req, after_queue>>
       ELSE /\ Room(2)
            /\ after_queue' = after_queue \o
                   <<ConversationEvent(r), StatusEvent(r, "generating")>>
            /\ req' = [req EXCEPT ![r] = "sent"]
    /\ UNCHANGED <<loadVars, selVars, chat_history, heartbeat, screenVars,
                   cacheVars, paramVars, managerVars,
                   credVars, runtimeVars, wizardVars>>

\* generate_and_display_response, before the readiness test: the status and
\* the line are scheduled again.
GenerateBegin(r) ==
    /\ req[r] = "sent"
    /\ Room(2)
    /\ after_queue' = after_queue \o
           <<StatusEvent(r, "generating"), ConversationEvent(r)>>
    /\ req' = [req EXCEPT ![r] = "check"]
    /\ UNCHANGED <<loadVars, selVars, chat_history, heartbeat, screenVars,
                   cacheVars, paramVars, managerVars,
                   credVars, runtimeVars, wizardVars>>

\* Mutant of Accepts: the readiness test is missing.
Accepts_always == TRUE

\* The readiness test of generate_and_display_response: the request goes on
\* exactly when self.model_initialized.is_set().
Accepts == model_initialized

\* generate_and_display_response, from the readiness test on: a request on a
\* model that is not initialized returns; otherwise the user turn is appended
\* and a process_response thread starts.
GenerateCheck(r) ==
    /\ req[r] = "check"
    /\ IF Accepts
       THEN /\ chat_history' = Append(chat_history, UserTurn(r))
            /\ req' = [req EXCEPT ![r] = "accepted"]
       ELSE /\ req' = [req EXCEPT ![r] = "rejected"]
            /\ UNCHANGED chat_history
    /\ UNCHANGED <<loadVars, selVars, heartbeat, after_queue, screenVars,
                   cacheVars, paramVars, managerVars,
                   credVars, runtimeVars, wizardVars>>

\* process_response up to the runtime call: the status, the parameters, the
\* prompt from chat_history; then the heartbeat timer is armed.
ProcessPrepare(r) ==
    /\ req[r] = "accepted"
    /\ Room(1)
    /\ after_queue' = Append(after_queue, StatusEvent(r, "generating"))
    /\ heartbeat' = [heartbeat EXCEPT ![r] = "armed"]
    /\ req' = [req EXCEPT ![r] = "running"]
    /\ UNCHANGED <<loadVars, selVars, chat_history, screenVars, cacheVars, paramVars, managerVars,
                   credVars, runtimeVars, wizardVars>>

\* process_response raises before the timer is armed (the parameters or the
\* chat template): the handler publishes the error.
ProcessPrepareError(r) ==
    /\ req[r] = "accepted"
    /\ Room(2)
    /\ after_queue' = after_queue \o
           <<StatusEvent(r, "generating"), StatusEvent(r, "error")>>
    /\ req' = [req EXCEPT ![r] = "failed"]
    /\ UNCHANGED <<loadVars, selVars, chat_history, heartbeat, screenVars,
                   cacheVars, paramVars, managerVars,
                   credVars, runtimeVars, wizardVars>>

\* formatted_chat: the turns apply_chat_template makes the prompt of, which
\* are all of self.chat_history.
formatted_chat == chat_history

\* clear_conversation (the Clear button): the text of the conversation
\* widget is deleted.
clear_conversation ==
    /\ conversation_history' = << >>
    /\ UNCHANGED <<loadVars, selVars, genVars, after_queue, status_bar,
                   cacheVars, paramVars, managerVars,
                   credVars, runtimeVars, wizardVars>>

\* Mutant of ProcessSuccess: the response is shown but not recorded in
\* chat_history.
ProcessSuccess_no_turn(r) ==
    /\ req[r] = "running"
    /\ Room(1)
    /\ after_queue' = Append(after_queue, ResponseEvent(r))
    /\ req' = [req EXCEPT ![r] = "succeeded"]
    /\ UNCHANGED <<loadVars, selVars, chat_history, heartbeat, screenVars,
                   cacheVars, paramVars, managerVars,
                   credVars, runtimeVars, wizardVars>>

\* self.pipe(...) returns: the trimmed text becomes the assistant turn and
\* update_ui_with_response is scheduled.
ProcessSuccess(r) ==
    /\ req[r] = "running"
    /\ Room(1)
    /\ chat_history' = Append(chat_history, AssistantTurn(r))
    /\ after_queue' = Append(after_queue, ResponseEvent(r))
    /\ req' = [req EXCEPT ![r] = "succeeded"]
    /\ UNCHANGED <<loadVars, selVars, heartbeat, screenVars, cacheVars, paramVars, managerVars,
                   credVars, runtimeVars, wizardVars>>

\* Mutant of ProcessError: the error text is recorded as an assistant turn.
ProcessError_with_turn(r) ==
    /\ req[r] = "running"
    /\ Room(1)
    /\ chat_history' = Append(chat_history, [role |-> "assistant", job |-> r])
    /\ after_queue' = Append(after_queue, StatusEvent(r, "error"))
    /\ req' = [req EXCEPT ![r] = "failed"]
    /\ UNCHANGED <<loadVars, selVars, heartbeat, screenVars, cacheVars, paramVars, managerVars,
                   credVars, runtimeVars, wizardVars>>

\* Mutant of ProcessError: the handler takes the user turn of the failed
\* request out of chat_history.
ProcessError_drops_turn(r) ==
    /\ req[r] = "running"
    /\ Room(1)
    /\ chat_history' = SelectSeq(chat_history, LAMBDA t : t.job # r)
    /\ after_queue' = Append(after_queue, StatusEvent(r, "error"))
    /\ req' = [req EXCEPT ![r] = "failed"]
    /\ UNCHANGED <<loadVars, selVars, heartbeat, screenVars, cacheVars,
                   paramVars, managerVars, credVars, runtimeVars, wizardVars>>

\* Mutant of ProcessError: the handler ends the thread without publishing
\* anything.
ProcessError_silent(r) ==
    /\ req[r] = "running"
    /\ req' = [req EXCEPT ![r] = "failed"]
    /\ UNCHANGED <<loadVars, selVars, chat_history, heartbeat, after_queue,
                   screenVars, cacheVars, paramVars, managerVars, credVars,
                   runtimeVars, wizardVars>>

\* self.pipe(...) raises: the handler publishes the error; chat_history keeps
\* the user turn.
ProcessError(r) ==
    /\ req[r] = "running"
    /\ Room(1)
    /\ after_queue' = Append(after_queue, StatusEvent(r, "error"))
    /\ req' = [req EXCEPT ![r] = "failed"]
    /\ UNCHANGED <<loadVars, selVars, chat_history, heartbeat, screenVars,
                   cacheVars, paramVars, managerVars,
                   credVars, runtimeVars, wizardVars>>

\* Mutant of HeartbeatTick: above MAX_GENERATION_TIME the timer also ends the
\* job as failed.
HeartbeatTick_cancels(r) ==
    /\ heartbeat[r] = "armed"
    /\ Room(1)
    /\ \E late \in BOOLEAN :
        IF late
        THEN /\ after_queue' = Append(after_queue, StatusEvent(r, "late"))
             /\ heartbeat' = [heartbeat EXCEPT ![r] = "expired"]
             /\ req' = [req EXCEPT ![r] = "failed"]
        ELSE /\ after_queue' = Append(after_queue, StatusEvent(r, "tick"))
             /\ UNCHANGED <<heartbeat, req>>
    /\ UNCHANGED <<loadVars, selVars, chat_history, screenVars, cacheVars, paramVars, managerVars,
                   credVars, runtimeVars, wizardVars>>

\* update_generation_status, run by the main loop 500 ms after it was armed:
\* below MAX_GENERATION_TIME it publishes the elapsed time and arms itself
\* again, above it publishes the "taking longer" message and stops. It does
\* not look at the state of the job.
HeartbeatTick(r) ==
    /\ heartbeat[r] = "armed"
    /\ Room(1)
    /\ \E late \in BOOLEAN :
        IF late
        THEN /\ after_queue' = Append(after_queue, StatusEvent(r, "late"))
             /\ heartbeat' = [heartbeat EXCEPT ![r] = "expired"]
        ELSE /\ after_queue' = Append(after_queue, StatusEvent(r, "tick"))
             /\ UNCHANGED heartbeat
    /\ UNCHANGED <<loadVars, selVars, chat_history, req, screenVars, cacheVars, paramVars, managerVars,
                   credVars, runtimeVars, wizardVars>>

\* ------------------------------------------------------------------------
\* The model cache (ModelManager)

\* Revisions a repository may have in the cache.
Revisions == {"rev1", "rev2"}

\* The (repo_id, revision) entries the cache directory may hold.
CacheEntries == Models \X Revisions

\* Sizes in bytes a revision may have on disk: 100 MB, 250 MB and 5243 bytes.
Sizes == {104857600, 262144000, 5243}

\* ------------------------------------------------------------------------

\* Cache scan (get_cache_info) and what the two readers make of it

\* The cache entries in the order a scan lists them.
EntryOrder ==
    <<<<"TinyLlama/TinyLlama-1.1B-Chat-v1.0", "rev1">>,
      <<"TinyLlama/TinyLlama-1.1B-Chat-v1.0", "rev2">>,
      <<"facebook/opt-125m", "rev1">>,
      <<"facebook/opt-125m", "rev2">>>>

RECURSIVE SumBytes(_)
SumBytes(entries) ==
    IF entries = {}
    THEN 0
    ELSE LET e == CHOOSE x \in entries : TRUE
         IN size_on_disk[e] + SumBytes(entries \ {e})

\* round(bytes / (1024 * 1024), 2), as a number of hundredths of a MB.
SizeMB(bytes) ==
    LET whole == bytes \div 1048576
        rest == bytes % 1048576
    IN whole * 100 + (rest * 25 + 131072) \div 262144

\* get_cache_info: the scan of the cache directory; None when scan_cache_dir
\* raises, as it does on a missing directory.
get_cache_info == cache_dir_exists /\ scan_ok

\* The row of a revision whose data was read.
ModelRow(e) ==
    [repo_id |-> e[1],
     revision |-> e[2],
     size_mb |-> SizeMB(size_on_disk[e]),
     last_modified |-> "isoformat"]

\* The row of a revision whose data raised while it was read.
ErrorRow(e) ==
    [repo_id |-> e[1],
     revision |-> "unknown",
     size_mb |-> 0,
     last_modified |-> "Unknown"]

\* Mutant of get_downloaded_models: a revision that cannot be read is left
\* out of the list.
get_downloaded_models_skipping ==
    IF get_cache_info
    THEN LET found == SelectSeq(EntryOrder,
                                LAMBDA e : e \in cache /\ e \notin unreadable)
         IN [i \in DOMAIN found |-> ModelRow(found[i])]
    ELSE << >>

\* get_downloaded_models: one row per revision, with its rounded size or, when
\* reading it raised, with the "unknown" fields; no row when the scan failed.
get_downloaded_models ==
    IF get_cache_info
    THEN LET found == SelectSeq(EntryOrder, LAMBDA e : e \in cache)
         IN [i \in DOMAIN found |->
                IF found[i] \in unreadable
                THEN ErrorRow(found[i])
                ELSE ModelRow(found[i])]
    ELSE << >>

\* The bytes os.walk finds under the cache directory: the files of the
\* revisions and every other file; nothing under a missing directory.
WalkBytes ==
    IF cache_dir_exists THEN SumBytes(cache) + stray_bytes ELSE 0

\* Mutant of get_total_cache_size: the directory is always walked.
get_total_cache_size_walk == SizeMB(WalkBytes)

\* get_total_cache_size: the rounded size_on_disk of the scan; without a scan
\* the rounded sum of the sizes of the files os.walk finds.
get_total_cache_size ==
    IF get_cache_info THEN SizeMB(SumBytes(cache)) ELSE SizeMB(WalkBytes)

\* ------------------------------------------------------------------------
\* Cache manager window (ModelManagerUI)

Loads == 1 .. MaxLoads

\* The widgets of a window that was just created.
NewWindow ==
    /\ total_size_label = << >>
    /\ tree = << >>
    /\ status_var = <<"Ready">>

\* The "Model Manager" button: ModelManagerUI creates the window and calls
\* load_models, which starts the first load_data thread.
open_model_manager ==
    /\ ~manager_open
    /\ manager_open' = TRUE
    /\ total_size_label' = << >>
    /\ tree' = << >>
    /\ status_var' = <<"Loading models...">>
    /\ load_data' = [load_data EXCEPT ![1] = "size"]
    /\ UNCHANGED <<loadVars, selVars, genVars, after_queue, screenVars, cache,
                   cache_dir_exists, mm_result, paramVars, size_on_disk,
                   scanVars, fileVars,
                   credVars, runtimeVars, wizardVars>>

\* The Close button destroys the window. Its load_data threads and its
\* pending callbacks act on destroyed widgets only: they are dropped here.
close_model_manager ==
    /\ manager_open
    /\ manager_open' = FALSE
    /\ total_size_label' = << >>
    /\ tree' = << >>
    /\ status_var' = <<"Ready">>
    /\ load_data' = [i \in Loads |-> "idle"]
    /\ after_queue' = SelectSeq(after_queue, LAMBDA e : e.job # ManagerJob)
    /\ UNCHANGED <<loadVars, selVars, genVars, screenVars, cache,
                   cache_dir_exists, mm_result, paramVars, size_on_disk,
                   scanVars, fileVars,
                   credVars, runtimeVars, wizardVars>>

\* load_models (the Refresh button): the tree is cleared and a load_data
\* thread is started.
load_models ==
    /\ manager_open
    /\ \E i \in Loads :
        /\ load_data[i] = "idle"
        /\ load_data' = [load_data EXCEPT ![i] = "size"]
    /\ status_var' = <<"Loading models...">>
    /\ tree' = << >>
    /\ UNCHANGED <<loadVars, selVars, genVars, after_queue, screenVars,
                   cacheVars, paramVars, size_on_disk, total_size_label,
                   scanVars, fileVars,
                   credVars, runtimeVars, wizardVars>>

\* load_data, first half: the cache is scanned for its total size and
\* update_cache_size is scheduled.
LoadDataSize(i) ==
    /\ load_data[i] = "size"
    /\ Room(1)
    /\ after_queue' = Append(after_queue, CacheSizeEvent(get_total_cache_size))
    /\ load_data' = [load_data EXCEPT ![i] = "list"]
    /\ UNCHANGED <<loadVars, selVars, genVars, screenVars, cacheVars, paramVars,
                   size_on_disk, widgetVars, scanVars, fileVars,
                   credVars, runtimeVars, wizardVars>>

\* load_data, second half: the cache is scanned again for the list of models
\* and update_ui_with_models is scheduled.
LoadDataList(i) ==
    /\ load_data[i] = "list"
    /\ Room(1)
    /\ after_queue' = Append(after_queue, ModelsEvent(get_downloaded_models))
    /\ load_data' = [load_data EXCEPT ![i] = "idle"]
    /\ UNCHANGED <<loadVars, selVars, genVars, screenVars, cacheVars, paramVars,
                   size_on_disk, widgetVars, scanVars, fileVars,
                   credVars, runtimeVars, wizardVars>>

\* ------------------------------------------------------------------------
\* Cache operations (ModelManager)

\* Mutant of delete_model: the revision is not passed on and every revision
\* of the repository is deleted.
delete_model_whole_repo(repo_id, revision) ==
    /\ manager_open
    /\ \E raised \in BOOLEAN :
        IF raised
        THEN /\ mm_result' = <<FALSE, "delete">>
             /\ UNCHANGED cache
        ELSE /\ mm_result' = <<TRUE, "delete">>
             /\ cache' = {e \in cache : e[1] # repo_id}
    /\ UNCHANGED <<loadVars, selVars, genVars, after_queue, screenVars,
                   cache_dir_exists, manager_open, paramVars, managerVars,
                   credVars, runtimeVars, wizardVars>>

\* delete_model: the deletion is handed to huggingface_hub; when that call
\* returns the entry is gone, when it raises the pair (False, message) is
\* returned.
delete_model(repo_id, revision) ==
    /\ manager_open
    /\ \E raised \in BOOLEAN :
        IF raised
        THEN /\ mm_result' = <<FALSE, "delete">>
             /\ UNCHANGED cache
        ELSE /\ mm_result' = <<TRUE, "delete">>
             /\ cache' = cache \ {<<repo_id, revision>>}
    /\ UNCHANGED <<loadVars, selVars, genVars, after_queue, screenVars,
                   cache_dir_exists, manager_open, paramVars, managerVars,
                   credVars, runtimeVars, wizardVars>>

\* Mutant of clear_entire_cache: an error of rmtree is ignored, entries it
\* could not remove stay and success is reported.
clear_entire_cache_ignore_errors ==
    /\ manager_open
    /\ \/ /\ cache_dir_exists
          /\ cache' \in SUBSET cache
          /\ stray_bytes' = 0
          /\ cache_dir_exists' = TRUE
          /\ mm_result' = <<TRUE, "clear">>
       \/ /\ ~cache_dir_exists
          /\ UNCHANGED <<cache, cache_dir_exists, stray_bytes>>
          /\ mm_result' = <<TRUE, "clear">>
       \/ /\ cache_dir_exists
          /\ cache' = {}
          /\ stray_bytes' = 0
          /\ cache_dir_exists' = FALSE
          /\ mm_result' = <<FALSE, "clear">>
    /\ UNCHANGED <<loadVars, selVars, genVars, after_queue, screenVars,
                   manager_open, paramVars, size_on_disk, widgetVars,
                   load_data, scan_ok, unreadable, fileVars,
                   credVars, runtimeVars, wizardVars>>

\* clear_entire_cache: an existing cache directory is removed with all its
\* files and created again; a missing one is left alone. Both report
\* success. When rmtree raises, part of the files may be gone; when makedirs
\* raises, the directory is gone; both report (False, message).
clear_entire_cache ==
    /\ manager_open
    /\ \/ /\ cache_dir_exists
          /\ cache' = {}
          /\ stray_bytes' = 0
          /\ cache_dir_exists' = TRUE
          /\ mm_result' = <<TRUE, "clear">>
       \/ /\ ~cache_dir_exists
          /\ UNCHANGED <<cache, cache_dir_exists, stray_bytes>>
          /\ mm_result' = <<TRUE, "clear">>
       \/ /\ cache_dir_exists
          /\ cache' \in SUBSET cache
          /\ stray_bytes' \in {0, stray_bytes}
          /\ cache_dir_exists' = TRUE
          /\ mm_result' = <<FALSE, "clear">>
       \/ /\ cache_dir_exists
          /\ cache' = {}
          /\ stray_bytes' = 0
          /\ cache_dir_exists' = FALSE
          /\ mm_result' = <<FALSE, "clear">>
    /\ UNCHANGED <<loadVars, selVars, genVars, after_queue, screenVars,
                   manager_open, paramVars, size_on_disk, widgetVars,
                   load_data, scan_ok, unreadable, fileVars,
                   credVars, runtimeVars, wizardVars>>

\* The paths the user may pick in the save dialog: one that can be opened for
\* writing and one that cannot.
Paths == {"models_info.json", "/models_info.json"}

\* open(file_path, 'w') succeeds.
Writable(file_path) == file_path = "models_info.json"

\* Mutant of export_models_info: the rows with an error are not written.
export_models_info_readable_only(file_path) ==
    /\ manager_open
    /\ IF ~Writable(file_path)
       THEN /\ mm_result' = <<FALSE, "export">>
            /\ UNCHANGED fileVars
       ELSE \E raised \in BOOLEAN :
                IF raised
                THEN /\ export_state' = "truncated"
                     /\ export_file' = << >>
                     /\ mm_result' = <<FALSE, "export">>
                ELSE /\ export_state' = "complete"
                     /\ export_file' = get_downloaded_models_skipping
                     /\ mm_result' = <<TRUE, "export">>
    /\ UNCHANGED <<loadVars, selVars, genVars, after_queue, screenVars, cache,
                   cache_dir_exists, manager_open, paramVars, size_on_disk,
                   widgetVars, load_data, scanVars, credVars, runtimeVars, wizardVars>>

\* export_models_info: the list of get_downloaded_models is written to
\* file_path as a JSON array. When open raises nothing is written; when
\* json.dump raises the file was already truncated; both are returned as
\* (False, message).
export_models_info(file_path) ==
    /\ manager_open
    /\ IF ~Writable(file_path)
       THEN /\ mm_result' = <<FALSE, "export">>
            /\ UNCHANGED fileVars
       ELSE \E raised \in BOOLEAN :
                IF raised
                THEN /\ export_state' = "truncated"
                     /\ export_file' = << >>
                     /\ mm_result' = <<FALSE, "export">>
                ELSE /\ export_state' = "complete"
                     /\ export_file' = get_downloaded_models
                     /\ mm_result' = <<TRUE, "export">>
    /\ UNCHANGED <<loadVars, selVars, genVars, after_queue, screenVars, cache,
                   cache_dir_exists, manager_open, paramVars, size_on_disk,
                   widgetVars, load_data, scanVars, credVars, runtimeVars, wizardVars>>

\* ------------------------------------------------------------------------
\* Credentials (CredentialsManager)

\* No key: None, or the empty text set_api_key rejects.
NoKey == << >>

\* The API keys the user may enter, as the bytes of their text: "A", "hf"
\* and "hf_".
ApiKeys == {<<65>>, <<104, 102>>, <<104, 102, 95>>}

\* The padding character "=" of base64, next to the 64 digits 0 .. 63.
Pad == 64

\* base64.b64encode: three bytes become four digits of six bits; a last
\* group of one or two bytes is padded.
RECURSIVE b64encode(_)
b64encode(bytes) ==
    IF bytes = << >>
    THEN << >>
    ELSE LET n == Len(bytes)
             b2 == IF n >= 2 THEN bytes[2] ELSE 0
             b3 == IF n >= 3 THEN bytes[3] ELSE 0
             v == bytes[1] * 65536 + b2 * 256 + b3
         IN <<v \div 262144,
              (v \div 4096) % 64,
              IF n >= 2 THEN (v \div 64) % 64 ELSE Pad,
              IF n >= 3 THEN v % 64 ELSE Pad>>
            \o b64encode(IF n > 3 THEN SubSeq(bytes, 4, n) ELSE << >>)

\* base64.b64decode: four digits become up to three bytes.
RECURSIVE b64decode(_)
b64decode(digits) ==
    IF digits = << >>
    THEN << >>
    ELSE LET n == Len(digits)
             d3 == IF digits[3] = Pad THEN 0 ELSE digits[3]
             d4 == IF digits[4] = Pad THEN 0 ELSE digits[4]
             v == digits[1] * 262144 + digits[2] * 4096 + d3 * 64 + d4
         IN <<v \div 65536>>
            \o (IF digits[3] = Pad THEN << >> ELSE <<(v \div 256) % 256>>)
            \o (IF digits[4] = Pad THEN << >> ELSE <<v % 256>>)
            \o b64decode(IF n > 4 THEN SubSeq(digits, 5, n) ELSE << >>)

\* _simple_encrypt and _simple_decrypt: base64 of the text, and back.
_simple_encrypt(text) == b64encode(text)
_simple_decrypt(encoded_text) == b64decode(encoded_text)

\* get_api_key: nothing when no key is marked as stored; otherwise the
\* password of the keyring (nothing when the keyring raises) or the decoded
\* "encrypted_api_key" of the config.
get_api_key ==
    IF ~config.api_key_stored
    THEN NoKey
    ELSE IF config.use_keyring
    THEN IF keyring_available THEN keyring_store ELSE NoKey
    ELSE IF config.encrypted_api_key # NoKey
    THEN _simple_decrypt(config.encrypted_api_key)
    ELSE NoKey

\* The body of set_api_key on the configuration cfg: an empty key is
\* refused; the key goes to the keyring or, encoded, into the config, and is
\* marked as stored; a keyring that raises gives (False, message).
StoreApiKey(cfg, api_key) ==
    IF api_key = NoKey
    THEN /\ cred_result' = <<FALSE, "API key cannot be empty">>
         /\ config' = cfg
         /\ UNCHANGED keyring_store
    ELSE IF cfg.use_keyring
    THEN IF keyring_available
         THEN /\ keyring_store' = api_key
              /\ config' = [cfg EXCEPT !.api_key_stored = TRUE]
              /\ cred_result' = <<TRUE, "API key saved successfully">>
         ELSE /\ cred_result' = <<FALSE, "Failed to store API key">>
              /\ config' = cfg
              /\ UNCHANGED keyring_store
    ELSE /\ config' = [cfg EXCEPT !.encrypted_api_key = _simple_encrypt(api_key),
                                  !.api_key_stored = TRUE]
         /\ cred_result' = <<TRUE, "API key saved successfully">>
         /\ UNCHANGED keyring_store

\* Everything outside the CredentialsManager.
appVars == <<loadVars, selVars, genVars, after_queue, screenVars, cacheVars,
             paramVars, managerVars, runtimeVars>>

\* set_api_key(api_key).
set_api_key(api_key) ==
    /\ StoreApiKey(config, api_key)
    /\ UNCHANGED <<keyring_available, appVars, wizardVars>>

\* delete_api_key: the password is deleted from the keyring when that is the
\* backend, the encoded key is dropped from the config and the key is marked
\* as not stored; a keyring that raises, as it does without a password,
\* gives (False, message).
delete_api_key ==
    /\ IF config.use_keyring /\ (~keyring_available \/ keyring_store = NoKey)
       THEN /\ cred_result' = <<FALSE, "Failed to delete API key">>
            /\ UNCHANGED <<config, keyring_store>>
       ELSE /\ keyring_store' = IF config.use_keyring THEN NoKey ELSE keyring_store
            /\ config' = [config EXCEPT !.encrypted_api_key = NoKey,
                                        !.api_key_stored = FALSE]
            /\ cred_result' = <<TRUE, "API key deleted successfully">>
    /\ UNCHANGED <<keyring_available, appVars, wizardVars>>

\* set_keyring_preference(use_keyring): the key is read through the current
\* backend, the preference is changed, and a key that was read is saved
\* again through set_api_key; otherwise success is returned at once.
set_keyring_preference(use_keyring) ==
    /\ LET current_key == get_api_key
           cfg == [config EXCEPT !.use_keyring = use_keyring]
       IN IF current_key # NoKey /\ cfg.api_key_stored
          THEN StoreApiKey(cfg, current_key)
          ELSE /\ config' = cfg
               /\ cred_result' = <<TRUE, "Storage preference updated">>
               /\ UNCHANGED keyring_store
    /\ UNCHANGED <<keyring_available, appVars, wizardVars>>

\* The keyring of the operating system stops or starts answering (no
\* backend, a locked keychain).
KeyringChange ==
    /\ keyring_available' = ~keyring_available
    /\ UNCHANGED <<config, keyring_store, cred_result, appVars, wizardVars>>

\* ------------------------------------------------------------------------
\* First-run wizard (FirstRunWizard)

\* len(self.steps): welcome, API key, models, complete.
Steps == 4

\* _navigate_to_step(step_index): the step the wizard shows afterwards; an
\* index outside the list of steps is ignored.
_navigate_to_step(step_index) ==
    IF step_index < 0 \/ step_index >= Steps
    THEN current_step
    ELSE step_index

\* Mutant of _finish_wizard: the first run is marked as completed whatever
\* the argument.
_finish_wizard_always(completed) ==
    /\ config' = [config EXCEPT !.first_run_completed = TRUE]
    /\ wizard_open' = FALSE
    /\ on_complete' = IF completed THEN "True" ELSE "False"

\* _finish_wizard(completed): mark_first_run_completed when completed, the
\* dialog is destroyed and on_complete_callback is called with the argument.
_finish_wizard(completed) ==
    /\ config' = IF completed
                 THEN [config EXCEPT !.first_run_completed = TRUE]
                 ELSE config
    /\ wizard_open' = FALSE
    /\ on_complete' = IF completed THEN "True" ELSE "False"

\* _handle_next (Next, or Finish on the last step); api_key is the stripped
\* text of the entry of the API key step. On that step a key that is not
\* empty is handed to set_api_key, whose result is not looked at.
_handle_next(api_key) ==
    /\ wizard_open
    /\ IF current_step = Steps - 1
       THEN /\ _finish_wizard(TRUE)
            /\ UNCHANGED <<current_step, keyring_store, cred_result>>
       ELSE /\ IF current_step = 1 /\ api_key # NoKey
               THEN StoreApiKey(config, api_key)
               ELSE UNCHANGED <<config, keyring_store, cred_result>>
            /\ current_step' = _navigate_to_step(current_step + 1)
            /\ UNCHANGED <<wizard_open, on_complete>>
    /\ UNCHANGED <<keyring_available, appVars>>

\* _handle_back (Back).
_handle_back ==
    /\ wizard_open
    /\ current_step' = _navigate_to_step(current_step - 1)
    /\ UNCHANGED <<wizard_open, on_complete, credVars, appVars>>

\* _handle_skip (Skip): acts on the API key step only.
_handle_skip ==
    /\ wizard_open
    /\ current_step' = IF current_step = 1
                       THEN _navigate_to_step(current_step + 1)
                       ELSE current_step
    /\ UNCHANGED <<wizard_open, on_complete, credVars, appVars>>

\* _handle_close (the close button of the window): on the last step the
\* wizard is finished; before it the user is asked, and quit is the answer.
_handle_close(quit) ==
    /\ wizard_open
    /\ IF current_step = Steps - 1
       THEN _finish_wizard(TRUE)
       ELSE IF quit
       THEN _finish_wizard(FALSE)
       ELSE UNCHANGED <<config, wizard_open, on_complete>>
    /\ UNCHANGED <<current_step, keyring_store, keyring_available, cred_result,
                   appVars>>

\* ------------------------------------------------------------------------
\* Generation parameters (get_generation_parameters)

\* The Entry widgets of self.settings and the Comboboxes of
\* self.boolean_settings.
NumericKeys == {"max_new_tokens", "temperature", "top_p", "num_beams"}
BooleanKeys == {"truncation", "do_sample", "early_stopping"}

\* The keys read with int(); the other numeric keys are read with float().
IntKeys == {"max_new_tokens", "num_beams"}

\* A text is the sequence of its characters.
Digits == <<"0", "1", "2", "3", "4", "5", "6", "7", "8", "9">>
IsDigit(c) == \E d \in DOMAIN Digits : Digits[d] = c
DigitValue(c) == (CHOOSE d \in DOMAIN Digits : Digits[d] = c) - 1

\* The number a sequence of decimal digits writes.
RECURSIVE DigitsValue(_)
DigitsValue(ds) ==
    IF ds = << >>
    THEN 0
    ELSE 10 * DigitsValue(SubSeq(ds, 1, Len(ds) - 1)) + DigitValue(ds[Len(ds)])

RECURSIVE Pow10(_)
Pow10(n) == IF n = 0 THEN 1 ELSE 10 * Pow10(n - 1)

\* The text without a leading minus sign.
Unsigned(text) == IF text # << >> /\ Head(text) = "-" THEN Tail(text) ELSE text
SignOf(text) == IF text # << >> /\ Head(text) = "-" THEN -1 ELSE 1

\* int(text): an optional sign and at least one digit; any other text raises
\* ValueError (ok = FALSE).
IntOf(text) ==
    LET body == Unsigned(text) IN
    IF body # << >> /\ \A i \in DOMAIN body : IsDigit(body[i])
    THEN [ok |-> TRUE, val |-> SignOf(text) * DigitsValue(body)]
    ELSE [ok |-> FALSE, val |-> 0]

\* float(text): an optional sign, digits with at most one point and at least
\* one digit; the value is kept exact as num / den, den a power of ten. Any
\* other text raises ValueError.
FloatOf(text) ==
    LET body == Unsigned(text)
        points == {i \in DOMAIN body : body[i] = "."}
        digits == SelectSeq(body, IsDigit)
        point == IF points = {} THEN Len(body) + 1 ELSE CHOOSE i \in points : TRUE
    IN
    IF /\ Cardinality(points) <= 1
       /\ digits # << >>
       /\ \A i \in DOMAIN body : IsDigit(body[i]) \/ body[i] = "."
    THEN [ok |-> TRUE,
          val |-> [num |-> SignOf(text) * DigitsValue(digits),
                   den |-> Pow10(Len(body) - point + (IF points = {} THEN 1 ELSE 0))]]
    ELSE [ok |-> FALSE, val |-> [num |-> 0, den |-> 1]]

\* Mutant of mac_defaults: the fallbacks are the defaults of the Entry widgets.
mac_defaults_of_ui ==
    [max_new_tokens |-> 50,
     temperature |-> [num |-> 5, den |-> 10],
     top_p |-> [num |-> 9, den |-> 10],
     num_beams |-> 2,
     repetition_penalty |-> [num |-> 12, den |-> 10],
     use_cache |-> TRUE,
     early_stopping |-> TRUE,
     do_sample |-> FALSE,
     truncation |-> TRUE,
     pad_token_id |-> 0]

\* mac_defaults: 0.7 is 7/10, 0.92 is 92/100, 1.2 is 12/10.
mac_defaults ==
    [max_new_tokens |-> 30,
     temperature |-> [num |-> 7, den |-> 10],
     top_p |-> [num |-> 92, den |-> 100],
     num_beams |-> 1,
     repetition_penalty |-> [num |-> 12, den |-> 10],
     use_cache |-> TRUE,
     early_stopping |-> TRUE,
     do_sample |-> FALSE,
     truncation |-> TRUE,
     pad_token_id |-> 0]

\* The try block of the first loop: the Entry text read with int() or float(),
\* and the value of mac_defaults when that raises.
NumericValue(key) ==
    LET parsed == IF key \in IntKeys
                  THEN IntOf(settings[key])
                  ELSE FloatOf(settings[key])
    IN IF parsed.ok THEN parsed.val ELSE mac_defaults[key]

\* Mutant of Included: the checkboxes are not consulted.
Included_all == NumericKeys \cup BooleanKeys

\* The keys whose "Include" checkbox is set.
Included == {key \in NumericKeys \cup BooleanKeys : include_settings[key]}

\* The two loops: every included key with its value; a Combobox gives True
\* exactly when its text is "True".
Collected ==
    [key \in Included |->
        IF key \in NumericKeys
        THEN NumericValue(key)
        ELSE boolean_settings[key] = "True"]

\* Mutant of Clamped: the ceilings are not applied.
Clamped_not(p) == p

\* The two safety checks: max_new_tokens above 75 becomes 75, num_beams above
\* 2 becomes 2.
Clamped(p) ==
    [key \in DOMAIN p |->
        CASE key = "max_new_tokens" /\ p[key] > 75 -> 75
          [] key = "num_beams" /\ p[key] > 2 -> 2
          [] OTHER -> p[key]]

\* Mutant of WithUseCache: every key of mac_defaults that is missing is added
\* with its default.
WithUseCache_all_defaults(p) ==
    [key \in DOMAIN p \cup DOMAIN mac_defaults |->
        IF key \in DOMAIN p THEN p[key] ELSE mac_defaults[key]]

\* if "use_cache" not in parameters: parameters["use_cache"] = True
WithUseCache(p) ==
    IF "use_cache" \in DOMAIN p THEN p ELSE p @@ ("use_cache" :> TRUE)

\* get_generation_parameters: the dictionary handed to the runtime call.
get_generation_parameters == WithUseCache(Clamped(Collected))

\* process_response: params = self.get_generation_parameters()
ProcessParameters ==
    /\ parameters = << >>
    /\ parameters' = get_generation_parameters
    /\ UNCHANGED <<loadVars, selVars, genVars, after_queue, screenVars,
                   cacheVars, settings, boolean_settings, include_settings,
                   managerVars,
                   credVars, runtimeVars, wizardVars>>

\* ------------------------------------------------------------------------
\* Specifications

\* CredentialsManager.__init__ on a machine without a config file: the
\* default configuration, nothing in the keyring.
InitCredentials ==
    /\ config = [use_keyring |-> TRUE,
                 api_key_stored |-> FALSE,
                 encrypted_api_key |-> NoKey,
                 first_run_completed |-> FALSE]
    /\ keyring_store = NoKey
    /\ keyring_available = TRUE
    /\ cred_result = <<TRUE, "none">>

\* No FirstRunWizard has been created.
InitNoWizard ==
    /\ current_step = 0
    /\ wizard_open = FALSE
    /\ on_complete = "none"

\* __init__: no pipeline, the flag clear, the model taken from the config,
\* the "Initializing model..." status scheduled and the initialize_model
\* thread started.
InitSession ==
    /\ pipe = None
    /\ model_initialized = FALSE
    /\ download_status = "Idle"
    /\ load_pc = "start"
    /\ model_name = None
    /\ load_started = 1
    /\ pipelines = 0
    /\ progress_pc = "idle"
    /\ selected_model \in Models
    /\ config_model = selected_model
    /\ chat_history = << >>
    /\ req = [r \in Requests |-> "unsent"]
    /\ heartbeat = [r \in Requests |-> "off"]
    /\ after_queue = << StatusEvent(LoadJob, "init") >>
    /\ status_bar = <<LoadJob, "none">>
    /\ conversation_history = << >>
    /\ manager_open = FALSE
    /\ mm_result = <<TRUE, "none">>
    /\ warmup_failed = FALSE
    /\ response_text = <<"s">>

\* setup_settings_ui: the default text of every widget, every checkbox set;
\* get_generation_parameters has not been called.
InitSettings ==
    /\ settings = [max_new_tokens |-> <<"5", "0">>,
                   temperature |-> <<"0", ".", "5">>,
                   top_p |-> <<"0", ".", "9">>,
                   num_beams |-> <<"2">>]
    /\ boolean_settings = [key \in BooleanKeys |-> "True"]
    /\ include_settings = [key \in NumericKeys \cup BooleanKeys |-> TRUE]
    /\ parameters = << >>

\* A cache directory that scan_cache_dir can scan, with readable revisions and
\* no other file.
InitScan ==
    /\ scan_ok = TRUE
    /\ stray_bytes = 0
    /\ unreadable = {}

\* Nothing has been exported.
InitFile ==
    /\ export_state = "absent"
    /\ export_file = << >>

\* No cache manager window has been opened; every revision that may come
\* into the cache takes 100 MB.
InitWindow ==
    /\ NewWindow
    /\ load_data = [i \in Loads |-> "idle"]
    /\ size_on_disk = [e \in CacheEntries |-> 104857600]
    /\ InitScan
    /\ InitFile

\* The chat session on a machine whose cache directory is still empty.
Init ==
    /\ InitSession
    /\ InitCredentials
    /\ InitNoWizard
    /\ InitSettings
    /\ InitWindow
    /\ cache = {}
    /\ cache_dir_exists = TRUE

\* What the files outside any revision (lock files, files of other
\* programs) may take.
StrayBytes == {0, 1048576}

\* The session started on any content of the cache directory.
InitCache ==
    /\ InitSession
    /\ InitCredentials
    /\ InitNoWizard
    /\ InitSettings
    /\ NewWindow
    /\ load_data = [i \in Loads |-> "idle"]
    /\ size_on_disk = [e \in CacheEntries |-> 104857600]
    /\ InitFile
    /\ unreadable = {}
    /\ scan_ok \in BOOLEAN
    /\ stray_bytes \in StrayBytes
    /\ cache \in SUBSET CacheEntries
    /\ cache_dir_exists \in BOOLEAN
    /\ ~cache_dir_exists => cache = {} /\ stray_bytes = 0

\* The steps of the program's own threads and timers.
ProgramStep ==
    \/ RunCallback
    \/ LoadStart
    \/ LoadPipelineOk
    \/ LoadPipelineError
    \/ LoadWarmupAndSet
    \/ LoadAnnounce
    \/ ProgressStart
    \/ ProgressTest
    \/ ProgressPublish

GenerateStep ==
    \/ \E r \in Requests : GenerateBegin(r)
    \/ \E r \in Requests : GenerateCheck(r)
    \/ \E r \in Requests : ProcessPrepare(r)
    \/ \E r \in Requests : ProcessPrepareError(r)
    \/ \E r \in Requests : ProcessSuccess(r)
    \/ \E r \in Requests : ProcessError(r)
    \/ \E r \in Requests : HeartbeatTick(r)

\* The user chats: up to MaxRequests messages, the model selection untouched.
Next ==
    \/ ProgramStep
    \/ GenerateStep
    \/ \E r \in Requests, t \in Inputs : send_message(r, t)

Spec == Init /\ [][Next]_vars

\* The user sends one message.
NextLive ==
    \/ ProgramStep
    \/ GenerateStep
    \/ \E t \in Inputs : send_message(1, t)

\* The main loop keeps running its callbacks, and a process_response thread
\* keeps being scheduled: it takes its next step, and the runtime call
\* returns or raises. window.after never blocks the calling thread, so a
\* step that finds the queue of the model full is taken once the main loop
\* has made room.
FairLive ==
    /\ WF_vars(RunCallback)
    /\ \A r \in Requests :
        /\ SF_vars(ProcessPrepare(r) \/ ProcessPrepareError(r))
        /\ SF_vars(ProcessSuccess(r) \/ ProcessError(r))

SpecLive == Init /\ [][NextLive]_vars /\ FairLive

\* The user chats and changes the selected model.
NextSelect ==
    \/ ProgramStep
    \/ GenerateStep
    \/ \E t \in Inputs : send_message(1, t)
    \/ \E m \in Models : on_model_changed(m)

SpecSelect == Init /\ [][NextSelect]_vars

\* The user sends one message and presses Clear.
NextClear ==
    \/ ProgramStep
    \/ GenerateStep
    \/ \E t \in Inputs : send_message(1, t)
    \/ clear_conversation

SpecClear == Init /\ [][NextClear]_vars

\* The characters of a generated text.
Alphabet == {"<", "/", "s", ">"}

\* The texts the runtime may generate: every text of up to MaxText
\* characters.
RawTexts == UNION {[1 .. n -> Alphabet] : n \in 0 .. MaxText}

\* A session whose model is loaded and announced, on a runtime that will
\* generate any of the texts.
InitReady ==
    /\ InitSettings
    /\ InitWindow
    /\ InitCredentials
    /\ InitNoWizard
    /\ cache = {}
    /\ cache_dir_exists = TRUE
    /\ selected_model \in Models
    /\ config_model = selected_model
    /\ pipe = selected_model
    /\ model_name = selected_model
    /\ model_initialized = TRUE
    /\ download_status = "Complete"
    /\ load_pc = "done"
    /\ progress_pc = "done"
    /\ load_started = 1
    /\ pipelines = 1
    /\ warmup_failed \in BOOLEAN
    /\ chat_history = << >>
    /\ req = [r \in Requests |-> "unsent"]
    /\ heartbeat = [r \in Requests |-> "off"]
    /\ after_queue = << >>
    /\ status_bar = <<LoadJob, "ready">>
    /\ conversation_history = << >>
    /\ manager_open = FALSE
    /\ mm_result = <<TRUE, "none">>
    /\ response_text \in RawTexts

\* The user sends one message to the loaded model.
NextReady ==
    \/ RunCallback
    \/ \E t \in Inputs : send_message(1, t)
    \/ \E r \in Requests : GenerateBegin(r)
    \/ \E r \in Requests : GenerateCheck(r)
    \/ \E r \in Requests : ProcessPrepare(r)
    \/ \E r \in Requests : ProcessSuccess(r)
    \/ \E r \in Requests : ProcessError(r)

SpecReady == InitReady /\ [][NextReady]_vars

\* The user works in the cache manager window while the model loads. The
\* load_data thread of the window is followed in SpecManager.
NextCache ==
    \/ ProgramStep
    \/ open_model_manager
    \/ close_model_manager
    \/ clear_entire_cache
    \/ \E e \in CacheEntries : delete_model(e[1], e[2])

SpecCache == InitCache /\ [][NextCache]_vars

\* What the user may have typed into the Entry widgets: the widget's default,
\* values at, above and below the ceilings, and texts int() or float() reject.
EntryTexts ==
    [max_new_tokens |-> {<<"5", "0">>, <<"7", "5">>, <<"7", "6">>,
                         <<"1", "0", "0", "0">>, <<"a", "b", "c">>},
     temperature |-> {<<"0", ".", "5">>, <<"1", ".", "2", "5">>, << >>},
     top_p |-> {<<"0", ".", "9">>, <<"0", ".", "9", ".", "2">>, <<"-", "1">>},
     num_beams |-> {<<"2">>, <<"5">>, <<"-", "1">>, <<"2", ".", "5">>}]

\* What a Combobox may hold: one of its two values or a typed text.
ComboTexts == {"True", "False", "true"}

\* The settings panel in any state the user can bring it to, before
\* get_generation_parameters is called.
InitParams ==
    /\ InitSession
    /\ InitCredentials
    /\ InitNoWizard
    /\ InitWindow
    /\ cache = {}
    /\ cache_dir_exists = TRUE
    /\ settings \in [NumericKeys -> UNION {EntryTexts[key] : key \in NumericKeys}]
    /\ \A key \in NumericKeys : settings[key] \in EntryTexts[key]
    /\ boolean_settings \in [BooleanKeys -> ComboTexts]
    /\ boolean_settings["do_sample"] # "true"
    /\ boolean_settings["early_stopping"] # "true"
    /\ include_settings \in [NumericKeys \cup BooleanKeys -> BOOLEAN]
    /\ parameters = << >>

NextParams == ProcessParameters

SpecParams == InitParams /\ [][NextParams]_vars

\* The session started on any content of the cache directory: the two
\* revisions of the first repository take 100 MB and 250 MB, those of the
\* second any of the sizes.
InitManager ==
    /\ InitSession
    /\ InitCredentials
    /\ InitNoWizard
    /\ InitSettings
    /\ NewWindow
    /\ load_data = [i \in Loads |-> "idle"]
    /\ cache \in SUBSET CacheEntries
    /\ cache_dir_exists = TRUE
    /\ size_on_disk \in [CacheEntries -> Sizes]
    /\ size_on_disk[EntryOrder[1]] = 104857600
    /\ size_on_disk[EntryOrder[2]] = 262144000
    /\ InitScan
    /\ InitFile

\* The user works in the cache manager window: Refresh, Delete Selected,
\* Clear Cache, Close.
NextManager ==
    \/ RunCallback
    \/ open_model_manager
    \/ close_model_manager
    \/ load_models
    \/ \E i \in Loads : LoadDataSize(i)
    \/ \E i \in Loads : LoadDataList(i)
    \/ clear_entire_cache
    \/ \E e \in CacheEntries : delete_model(e[1], e[2])

SpecManager == InitManager /\ [][NextManager]_vars

\* The session started on any cache directory: missing or present, one that
\* scan_cache_dir can scan or not, with other files beside the revisions, and
\* with revisions whose data cannot be read.
InitDisk ==
    /\ InitSession
    /\ InitCredentials
    /\ InitNoWizard
    /\ InitSettings
    /\ NewWindow
    /\ load_data = [i \in Loads |-> "idle"]
    /\ InitFile
    /\ cache \in SUBSET CacheEntries
    /\ cache_dir_exists \in BOOLEAN
    /\ scan_ok \in BOOLEAN
    /\ stray_bytes \in StrayBytes
    /\ unreadable \in SUBSET cache
    /\ ~cache_dir_exists => cache = {} /\ stray_bytes = 0
    /\ size_on_disk = [e \in CacheEntries |->
                          IF e = EntryOrder[1] THEN 104857600
                          ELSE IF e = EntryOrder[2] THEN 262144000
                          ELSE 5243]

\* The user works in the cache manager window and leaves the cache as it
\* is: Refresh, Export Info, Close.
NextDisk ==
    \/ RunCallback
    \/ open_model_manager
    \/ close_model_manager
    \/ load_models
    \/ \E i \in Loads : LoadDataSize(i)
    \/ \E i \in Loads : LoadDataList(i)
    \/ \E file_path \in Paths : export_models_info(file_path)

SpecDisk == InitDisk /\ [][NextDisk]_vars

\* The user works in the preferences dialog: Save, Remove Key, the storage
\* method; the keyring comes and goes.
NextCredentials ==
    \/ \E api_key \in ApiKeys \cup {NoKey} : set_api_key(api_key)
    \/ \E use_keyring \in BOOLEAN : set_keyring_preference(use_keyring)
    \/ delete_api_key
    \/ KeyringChange

SpecCredentials == Init /\ [][NextCredentials]_vars

\* The FirstRunWizard opened on a configuration without a completed first
\* run, with either storage method and with or without a keyring.
InitWizard ==
    /\ InitSession
    /\ InitSettings
    /\ InitWindow
    /\ cache = {}
    /\ cache_dir_exists = TRUE
    /\ config \in {[use_keyring |-> k,
                    api_key_stored |-> FALSE,
                    encrypted_api_key |-> NoKey,
                    first_run_completed |-> FALSE] : k \in BOOLEAN}
    /\ keyring_store = NoKey
    /\ keyring_available \in BOOLEAN
    /\ cred_result = <<TRUE, "none">>
    /\ current_step = 0
    /\ wizard_open = TRUE
    /\ on_complete = "none"

\* The user works in the wizard: Next, Back, Skip, the close button.
NextWizard ==
    \/ \E api_key \in ApiKeys \cup {NoKey} : _handle_next(api_key)
    \/ _handle_back
    \/ _handle_skip
    \/ \E quit \in BOOLEAN : _handle_close(quit)

SpecWizard == InitWizard /\ [][NextWizard]_vars

\* ------------------------------------------------------------------------
\* Session predicates

\* A process_response thread of request r has been started and has not ended.
InFlight(r) == req[r] \in {"accepted", "running"}

\* The load job has neither set the ready flag nor failed.
Loading == load_pc \in {"start", "pipeline", "warmup"}

\* The load job ended in its error handler.
Failed == load_pc = "failed"

\* The model the load job is loading.
LoadingModel == IF load_pc = "start" THEN selected_model ELSE model_name

\* The turns of chat_history that belong to request r, in order.
TurnsOf(r) == SelectSeq(chat_history, LAMBDA t : t.job = r)

\* The readiness test of request r is taken in this step.
Decides(r) == req[r] = "check" /\ req'[r] # "check"

\* The newest scheduled callback.
Newest(queue) == queue[Len(queue)]

\* The callbacks scheduled in this step, in the order they were scheduled.
Published ==
    IF Len(after_queue') > Len(after_queue)
    THEN SubSeq(after_queue', Len(after_queue) + 1, Len(after_queue'))
    ELSE << >>

\* The job has published its terminal event: the load job its ready or error
\* status, request r its response or its error status.
Ended(job) ==
    IF job = LoadJob
    THEN load_pc \in {"done", "failed"}
    ELSE req[job] \in {"succeeded", "failed"}

\* What the status bar shows once the callback e has run.
Applied(e) ==
    CASE e.cb = "status" -> <<e.job, e.kind>>
      [] e.cb = "response" -> <<e.job, "Model ready.">>
      [] OTHER -> status_bar

\* The queue without its i-th callback.
Without(queue, i) ==
    SubSeq(queue, 1, i - 1) \o SubSeq(queue, i + 1, Len(queue))

\* get_generation_parameters has returned.
Called == parameters # << >>

\* What int() or float() makes of the Entry text of a numeric key.
Parsed(key) ==
    IF key \in IntKeys THEN IntOf(settings[key]) ELSE FloatOf(settings[key])

\* The sum of the sizes the rows of the tree show, in hundredths of a MB.
RECURSIVE SumListed(_)
SumListed(rows) ==
    IF rows = << >> THEN 0 ELSE Head(rows).size_mb + SumListed(Tail(rows))

\* Every revision takes a whole number of megabytes: rounding to two
\* decimals loses nothing.
WholeMB == \A e \in CacheEntries : size_on_disk[e] % 1048576 = 0

\* This step is a delete_model of entry e that reported success.
Deleted(e) == delete_model(e[1], e[2]) /\ mm_result'[1]

\* The row of the list that shows entry e.
IsRow(row, e) == row.repo_id = e[1] /\ row.revision = e[2]

\* The window shows a total size and a finished list of models.
Reported == total_size_label # << >> /\ status_var[1] = "Loaded"

\* ------------------------------------------------------------------------
\* Claims

\* C1: at most one Generating job is outstanding: no two process_response
\* runs are in flight at the same time.
C1_AtMostOneGenerating ==
    Cardinality({r \in Requests : InFlight(r)}) <= 1

\* C2: a Generate request whose readiness test is taken while another
\* generation is in flight is rejected and leaves chat_history unchanged.
C2_BusyGenerateRejected ==
    [][\A r \in Requests :
          (Decides(r) /\ \E q \in Requests \ {r} : InFlight(q))
              => (req'[r] = "rejected" /\ chat_history' = chat_history)]_vars

\* C3: a Generate request whose readiness test finds model_initialized not
\* set is rejected: chat_history is unchanged, the request stays rejected, no
\* turn of it is ever in chat_history and no generation (nor its heartbeat)
\* is started for it.
C3_GenerateWhileLoadingRejected ==
    /\ [][\A r \in Requests :
            /\ (Decides(r) /\ ~model_initialized)
                  => (req'[r] = "rejected" /\ chat_history' = chat_history)
            /\ req[r] = "rejected" => req'[r] = "rejected"]_vars
    /\ [](\A r \in Requests :
            req[r] = "rejected" => (TurnsOf(r) = << >> /\ heartbeat[r] = "off"))

\* C3 witness: a request was rejected while the load was still in progress.
C3_Witness ==
    \E r \in Requests : req[r] = "rejected" /\ Loading

\* C4: a successful Generate appends the User turn at acceptance and the
\* Assistant turn at success, so the log then holds exactly one User turn and
\* after it exactly one Assistant turn of the request; the response is
\* scheduled for display and the ready flag stays set.
C4_SuccessfulGenerate ==
    /\ [][\A r \in Requests :
            /\ (req[r] = "check" /\ req'[r] = "accepted")
                  => chat_history' = Append(chat_history, UserTurn(r))
            /\ (req[r] = "running" /\ req'[r] = "succeeded")
                  => /\ chat_history' = Append(chat_history, AssistantTurn(r))
                     /\ after_queue' = Append(after_queue, ResponseEvent(r))
                     /\ Accepts']_vars
    /\ [](\A r \in Requests :
            req[r] = "succeeded"
                => (TurnsOf(r) = <<UserTurn(r), AssistantTurn(r)>> /\ Accepts))

\* C4 witness: one request on a ready session succeeded and its answer is on
\* screen.
C4_Witness ==
    /\ req[1] = "succeeded"
    /\ chat_history = <<UserTurn(1), AssistantTurn(1)>>
    /\ status_bar = <<1, "Model ready.">>

\* C5: when a generation fails, an Error status is published, chat_history
\* keeps the User turn of the request and gets no Assistant turn for it, the
\* ready flag stays set and a later readiness test accepts.
C5_FailedGenerate ==
    /\ [][\A r \in Requests :
            /\ (InFlight(r) /\ req'[r] = "failed")
                  => /\ chat_history' = chat_history
                     /\ after_queue' # << >>
                     /\ Newest(after_queue') = StatusEvent(r, "error")
                     /\ Accepts'
            /\ (Decides(r) /\ \E q \in Requests : req[q] = "failed")
                  => req'[r] = "accepted"]_vars
    /\ [](\A r \in Requests :
            req[r] = "failed" => (TurnsOf(r) = <<UserTurn(r)>> /\ Accepts))

\* C5 witness: the first request failed at the runtime call and the next one
\* was accepted and answered.
C5_Witness ==
    /\ req[1] = "failed"
    /\ heartbeat[1] # "off"
    /\ req[2] = "succeeded"
    /\ chat_history = <<UserTurn(1), UserTurn(2), AssistantTurn(2)>>

\* C6: from Failed a new Load may be requested: some step of the program
\* takes the load job out of Failed.
C6_FailedLoadCanBeRetried ==
    Failed => ENABLED (NextSelect /\ load_pc' # "failed")

\* C7: when the runtime Load call fails, the error is published as a status,
\* the ready flag is not set (no pipeline is held), and no Generate request is
\* accepted in that state.
C7_FailedLoad ==
    /\ [][(load_pc = "pipeline" /\ load_pc' = "failed")
            => /\ after_queue' = Append(after_queue, StatusEvent(LoadJob, "error"))
               /\ download_status' = "Error"]_vars
    /\ [](Failed =>
            /\ ~model_initialized
            /\ pipe = None
            /\ chat_history = << >>
            /\ \A r \in Requests : req[r] \in {"unsent", "sent", "check", "rejected"})

\* C7 witness: the load failed and a request sent after that was rejected.
C7_Witness ==
    /\ Failed
    /\ \E r \in Requests : req[r] = "rejected"

C9_ReloadFromReady ==
    [][(model_initialized /\ selected_model' # selected_model)
          => (Loading' /\ pipe' # pipe)]_vars

\* C9 amended: a change of the selected model on a ready session starts no
\* load: the ready flag and the pipeline stay as they are, and a name that
\* differs from the configured one is saved with a "restart required" status.
C9_ModelChangeNeedsRestart ==
    [][(model_initialized /\ selected_model' # selected_model)
          => /\ model_initialized'
             /\ pipe' = pipe
             /\ load_pc' = load_pc
             /\ load_started' = load_started
             /\ selected_model' # config_model
                   => /\ config_model' = selected_model'
                      /\ StatusEvent(LoadJob, "restart required")
                            \in {after_queue'[i] : i \in
                                   Len(after_queue) + 1 .. Len(after_queue')}]_vars

\* C9 witness: after the load job announced the ready model, the selection
\* was changed to another model: the pipeline is the old one and the restart
\* status follows the ready status in the queue.
C9_Witness ==
    /\ model_initialized
    /\ load_pc = "done"
    /\ selected_model # pipe
    /\ config_model = selected_model
    /\ after_queue = <<StatusEvent(LoadJob, "ready"),
                       StatusEvent(LoadJob, "restart required")>>

\* C10: while a Load is in progress, a delete or clear that targets a cached
\* entry of the loading model deletes nothing and reports failure.
C10_CacheBusyWhileLoading ==
    [][(/\ Loading
        /\ \/ clear_entire_cache /\ \E e \in cache : e[1] = LoadingModel
           \/ \E rev \in Revisions :
                 <<LoadingModel, rev>> \in cache /\ delete_model(LoadingModel, rev))
          => (cache' = cache /\ mm_result'[1] = FALSE)]_vars

\* C11: the terminal event of a Load or Generate job is the last status event
\* published for it: once the job has published its ready, response or error
\* event, no progress or heartbeat status of that job is scheduled.
C11_TerminalEventIsLast ==
    [][\A i \in DOMAIN Published :
          Published[i].cb = "status" => ~Ended(Published[i].job)]_vars

C13_TicksStopAtCompletion ==
    \A r \in Requests :
        req[r] \in {"succeeded", "failed"} => heartbeat[r] # "armed"

C15_CeilingsHold ==
    /\ ~Called => "use_cache" \in DOMAIN get_generation_parameters
    /\ Called =>
        /\ include_settings["max_new_tokens"] =>
            /\ parameters["max_new_tokens"] <= 75
            /\ settings["max_new_tokens"] = <<"1", "0", "0", "0">>
                  => parameters["max_new_tokens"] = 75
            /\ Parsed("max_new_tokens").ok =>
                  parameters["max_new_tokens"] =
                      IF Parsed("max_new_tokens").val > 75
                      THEN 75
                      ELSE Parsed("max_new_tokens").val
        /\ include_settings["num_beams"] =>
            /\ parameters["num_beams"] <= 2
            /\ settings["num_beams"] = <<"5">> => parameters["num_beams"] = 2
            /\ Parsed("num_beams").ok =>
                  parameters["num_beams"] =
                      IF Parsed("num_beams").val > 2
                      THEN 2
                      ELSE Parsed("num_beams").val

\* C15 witness: 1000 new tokens and 5 beams were requested and the effective
\* parameters hold 75 and 2.
C15_Witness ==
    /\ Called
    /\ include_settings["max_new_tokens"] /\ include_settings["num_beams"]
    /\ settings["max_new_tokens"] = <<"1", "0", "0", "0">>
    /\ settings["num_beams"] = <<"5">>
    /\ parameters["max_new_tokens"] = 75
    /\ parameters["num_beams"] = 2

\* C16 as stated: a request that includes no field yields the full default
\* table: max_new_tokens 30, temperature 0.7, top_p 0.92, num_beams 1,
\* repetition_penalty 1.2, use_cache, early_stopping and truncation true,
\* do_sample false.
C16_NoFieldGivesDefaultTable ==
    (Called /\ Included = {})
        => /\ DOMAIN parameters = DOMAIN mac_defaults \ {"pad_token_id"}
           /\ \A key \in DOMAIN parameters : parameters[key] = mac_defaults[key]

\* C16 amended: a request that includes no field yields use_cache = true and
\* nothing else.
C16_NoFieldGivesUseCacheOnly ==
    (Called /\ Included = {})
        => /\ DOMAIN parameters = {"use_cache"}
           /\ parameters["use_cache"] = TRUE

\* C16 witness: get_generation_parameters returned with every checkbox clear.
C16_Witness ==
    /\ Called
    /\ \A key \in NumericKeys \cup BooleanKeys : ~include_settings[key]

\* C17 as stated: every field the request does not include is absent from
\* the effective parameters.
C17_ExcludedFieldAbsent ==
    Called => \A key \in DOMAIN mac_defaults :
                  key \notin Included => key \notin DOMAIN parameters

\* C17 amended: each of the seven fields with an "Include" checkbox is in the
\* effective parameters exactly when its own checkbox is set, whatever the
\* other checkboxes are; use_cache is always present and true, and no other
\* key is ever present.
C17_CheckboxDecidesPresence ==
    Called =>
        /\ \A key \in NumericKeys \cup BooleanKeys :
              key \in DOMAIN parameters <=> include_settings[key]
        /\ DOMAIN parameters \subseteq NumericKeys \cup BooleanKeys \cup {"use_cache"}
        /\ "use_cache" \in DOMAIN parameters
        /\ parameters["use_cache"] = TRUE

\* C17 witness: a request with some fields included and their neighbours
\* excluded.
C17_Witness ==
    /\ Called
    /\ include_settings["temperature"] /\ ~include_settings["top_p"]
    /\ ~include_settings["truncation"] /\ include_settings["do_sample"]
    /\ DOMAIN parameters = {"temperature", "do_sample", "use_cache"}

\* C18: an included numeric field whose text cannot be parsed gets the value
\* of the default table (30, 0.7, 0.92, 1) and the call goes on; every other
\* included field has the value of its own widget.
C18_UnparseableGivesDefault ==
    Called =>
        /\ \A key \in NumericKeys :
              (include_settings[key] /\ ~Parsed(key).ok)
                  => parameters[key] =
                        CASE key = "max_new_tokens" -> 30
                          [] key = "temperature" -> [num |-> 7, den |-> 10]
                          [] key = "top_p" -> [num |-> 92, den |-> 100]
                          [] key = "num_beams" -> 1
        /\ \A key \in NumericKeys \ IntKeys :
              (include_settings[key] /\ Parsed(key).ok)
                  => parameters[key] = Parsed(key).val
        /\ \A key \in IntKeys :
              (include_settings[key] /\ Parsed(key).ok)
                  => parameters[key] \in {Parsed(key).val, 75, 2}
        /\ \A key \in BooleanKeys :
              include_settings[key]
                  => parameters[key] = (boolean_settings[key] = "True")

\* C18 witness: "abc" as max_new_tokens gave 30 while the 1.25 typed as
\* temperature went through.
C18_Witness ==
    /\ Called
    /\ include_settings["max_new_tokens"] /\ include_settings["temperature"]
    /\ settings["max_new_tokens"] = <<"a", "b", "c">>
    /\ parameters["max_new_tokens"] = 30
    /\ settings["temperature"] = <<"1", ".", "2", "5">>
    /\ parameters["temperature"] = [num |-> 125, den |-> 100]

\* C19: the total size the cache manager reports equals the sum of the sizes
\* of the models it lists, also when the cache changes between the size
\* computation and the listing. Stated for revisions of whole megabytes,
\* where rounding to two decimals loses nothing.
C19_TotalIsSumOfListed ==
    (Reported /\ WholeMB) => total_size_label[1] = SumListed(tree)

ClearSucceeds == clear_entire_cache /\ mm_result'[1]

\* The last ModelManager call was a clear_entire_cache that reported success.
Cleared == mm_result = <<TRUE, "clear">>

\* C21: after clear_entire_cache reports success, get_downloaded_models gives
\* the empty list and get_total_cache_size gives 0, whatever the cache held
\* before the call.
C21_ClearThenScanEmpty ==
    [][ClearSucceeds => /\ get_downloaded_models' = << >>
                        /\ get_total_cache_size' = 0]_vars

\* C21 witness: the window still shows the total of a cache that held
\* something, and the clear that followed has reported success.
C21_Witness ==
    /\ Cleared
    /\ Reported
    /\ total_size_label[1] > 0
    /\ get_downloaded_models = << >>
    /\ get_total_cache_size = 0

\* C22: clear_entire_cache is idempotent: after a call that reported success
\* a second call can report success too, and when it does it leaves the cache
\* directory as the first call left it, with no entry and a total of 0.
C22_ClearTwice ==
    /\ [][(Cleared /\ ClearSucceeds)
              => /\ cache' = {} /\ cache = {}
                 /\ cache_dir_exists' = cache_dir_exists
                 /\ stray_bytes' = 0 /\ stray_bytes = 0
                 /\ get_downloaded_models' = << >>
                 /\ get_total_cache_size' = 0]_vars
    /\ []((Cleared /\ manager_open) => ENABLED ClearSucceeds)

\* C22 witness: a cache directory with other files in it that the scan
\* cannot read has been cleared with success, and the window is open for the
\* second call.
C22_Witness ==
    /\ Cleared
    /\ manager_open
    /\ cache_dir_exists
    /\ ~scan_ok
    /\ cache = {}
    /\ get_total_cache_size = 0

\* C23: whenever clear_entire_cache reports success the cache directory
\* exists and is empty afterwards, also when it did not exist before the
\* call; a failure is returned as the pair (False, message).
C23_SuccessLeavesEmptyRoot ==
    [][clear_entire_cache
          => /\ mm_result' \in {<<TRUE, "clear">>, <<FALSE, "clear">>}
             /\ mm_result'[1] => /\ cache_dir_exists'
                                 /\ cache' = {}
                                 /\ stray_bytes' = 0]_vars

\* ------------------------------------------------------------------------
\* Export and scan

\* An export_models_info(file_path) step that returns (True, message).
ExportSucceeds(file_path) == export_models_info(file_path) /\ mm_result'[1]

\* The callback the last window.after(0, ...) call has scheduled.
Scheduled == after_queue'[Len(after_queue')]

\* C24: export_models_info returns its failures as (False, message); when
\* file_path cannot be written or when the scan of the cache fails it does
\* not report success.
C24_ExportFailureIsReported ==
    [][\A file_path \in Paths :
          export_models_info(file_path)
              => /\ mm_result' \in {<<TRUE, "export">>, <<FALSE, "export">>}
                 /\ (~Writable(file_path) \/ ~get_cache_info)
                        => ~mm_result'[1]]_vars

\* C25: an export that reports success has written a complete JSON array
\* with one element per (repository, revision) entry of the scan, in the
\* scan's order; on an empty cache an export to a writable path can report
\* success and then the array is empty.
C25_ExportWritesScan ==
    /\ [][\A file_path \in Paths :
              ExportSucceeds(file_path)
                  => /\ export_state' = "complete"
                     /\ export_file' = get_downloaded_models
                     /\ get_cache_info
                            => Len(export_file') = Cardinality(cache)
                     /\ cache = {} => export_file' = << >>]_vars
    /\ []((manager_open /\ cache = {})
              => ENABLED ExportSucceeds("models_info.json"))

\* C25 witness: an export has reported success on a cache of three
\* revisions, one of which could not be read.
C25_Witness ==
    /\ mm_result = <<TRUE, "export">>
    /\ export_state = "complete"
    /\ Cardinality(cache) = 3
    /\ Cardinality(unreadable) = 1
    /\ Len(export_file) = 3

\* C26: a revision whose data cannot be read is still listed, with size 0
\* and the "unknown" fields; every other revision is listed with its own
\* revision and size; the list has as many rows as the cache has revisions.
C26_ScanToleratesBadRevision ==
    [][\A i \in Loads :
          (LoadDataList(i) /\ get_cache_info)
              => LET rows == Scheduled.kind
                 IN /\ Len(rows) = Cardinality(cache)
                    /\ \A e \in cache \ unreadable :
                          \E k \in DOMAIN rows :
                              /\ IsRow(rows[k], e)
                              /\ rows[k].size_mb = SizeMB(size_on_disk[e])
                              /\ rows[k].last_modified # "Unknown"
                    /\ \A repo_id \in {e[1] : e \in CacheEntries} :
                          Cardinality({k \in DOMAIN rows :
                                          /\ rows[k].repo_id = repo_id
                                          /\ rows[k].revision = "unknown"
                                          /\ rows[k].size_mb = 0
                                          /\ rows[k].last_modified = "Unknown"})
                          = Cardinality({e \in cache \cap unreadable :
                                            e[1] = repo_id})]_vars

\* C26 witness: the window lists three revisions, one of them with the
\* "unknown" fields and the others with their own.
C26_Witness ==
    /\ status_var = <<"Loaded", 3>>
    /\ Len(tree) = 3
    /\ Cardinality({k \in DOMAIN tree : tree[k].revision = "unknown"}) = 1
    /\ Cardinality({k \in DOMAIN tree : tree[k].size_mb > 0}) = 2

C28_ClearEmptiesLog ==
    [][clear_conversation => /\ chat_history' = << >>
                             /\ formatted_chat' = << >>]_vars

\* ------------------------------------------------------------------------
\* Threads

\* The steps the Tk main loop runs: scheduled callbacks, timers and the
\* handlers of the user's actions.
UIThreadStep ==
    \/ RunCallback
    \/ \E r \in Requests, t \in Inputs : send_message(r, t)
    \/ \E r \in Requests : HeartbeatTick(r)
    \/ \E m \in Models : on_model_changed(m)
    \/ clear_conversation

\* A step writes self.pipe, self.model_initialized, self.download_status or
\* self.chat_history.
WritesSession ==
    \/ pipe' # pipe
    \/ model_initialized' # model_initialized
    \/ download_status' # download_status
    \/ chat_history' # chat_history

\* C29: the session state and chat_history are written on the UI thread
\* only: a worker thread hands its result over through a scheduled callback
\* and writes none of these fields itself.
C29_OnlyUIThreadWrites == [][WritesSession => UIThreadStep]_vars

\* ------------------------------------------------------------------------
\* Credentials

\* The key that is stored through the backend the preference names.
StoredKey ==
    IF ~config.api_key_stored
    THEN NoKey
    ELSE IF config.use_keyring
    THEN keyring_store
    ELSE _simple_decrypt(config.encrypted_api_key)

\* C30: when a key is stored and set_keyring_preference(b) returns success,
\* get_api_key() read through backend b returns the key that was stored
\* before the change.
C30_PreferenceChangeKeepsKey ==
    [][\A use_keyring \in BOOLEAN :
          (/\ StoredKey # NoKey
           /\ set_keyring_preference(use_keyring)
           /\ cred_result'[1])
              => /\ config'.use_keyring = use_keyring
                 /\ get_api_key' = StoredKey]_vars

\* ------------------------------------------------------------------------
\* Warmup

\* C31: whenever pipeline(...) has returned, the load job sets the ready
\* flag and then publishes the ready status, whether the warmup inference
\* succeeded or failed: a failed warmup never leads to the error handler.
C31_WarmupFailureDoesNotBlock ==
    /\ [][load_pc = "warmup" /\ load_pc' # "warmup"
              => /\ model_initialized'
                 /\ download_status' = "Complete"
                 /\ load_pc' = "announce"]_vars
    /\ [][load_pc = "announce" /\ load_pc' # "announce"
              => /\ Published = <<StatusEvent(LoadJob, "ready")>>
                 /\ load_pc' = "done"]_vars
    /\ [](warmup_failed /\ load_pc = "done" => model_initialized /\ pipe # None)

\* C31 witness: the warmup has failed, the flag is set and the ready status
\* is on the status bar.
C31_Witness ==
    /\ warmup_failed
    /\ model_initialized
    /\ load_pc = "done"
    /\ status_bar = <<LoadJob, "ready">>

\* ------------------------------------------------------------------------
\* Prompt and trimmed response

\* The sequence pre is a prefix of the sequence text.
IsPrefix(pre, text) ==
    Len(pre) <= Len(text) /\ SubSeq(text, 1, Len(pre)) = pre

\* C32: the prompt of a generation is made of all of chat_history, whose last
\* turn is the user turn just appended; the content of the assistant turn is
\* the generated text cut at the first "</s>": a prefix of it that holds no
\* marker and is followed by one, or all of the text when it holds no marker.
C32_PromptAndTrimmedResponse ==
    /\ [][\A r \in Requests :
              ProcessPrepare(r)
                  => /\ formatted_chat = chat_history
                     /\ formatted_chat[Len(formatted_chat)] = UserTurn(r)]_vars
    /\ [](\A i \in DOMAIN chat_history :
              chat_history[i].role = "assistant"
                  => LET content == chat_history[i].content
                     IN /\ IsPrefix(content, response_text)
                        /\ MarkerAt(content) = {}
                        /\ MarkerAt(response_text) = {}
                               => content = response_text
                        /\ MarkerAt(response_text) # {}
                               => Len(content) + 1 \in MarkerAt(response_text))

\* C32 witness: the runtime has generated "s</s>s" and the assistant turn
\* holds "s".
C32_Witness ==
    /\ response_text = <<"s", "<", "/", "s", ">", "s">>
    /\ chat_history = <<UserTurn(1),
                        [role |-> "assistant", job |-> 1, content |-> <<"s">>]>>

\* ------------------------------------------------------------------------
\* The log and the threads that write it

\* C33: chat_history only grows by appending: in every step of sending,
\* accepting, rejecting, succeeding and failing, the old value is a prefix of
\* the new one.
C33_LogIsAppendOnly == [][IsPrefix(chat_history, chat_history')]_vars

\* C33 witness: the first message was answered and the second failed; the
\* log holds the three turns in the order they were appended.
C33_Witness ==
    /\ req[1] = "succeeded"
    /\ req[2] = "failed"
    /\ chat_history = <<UserTurn(1), AssistantTurn(1), UserTurn(2)>>

\* C34: once initialize_model has finished, with success or with an error,
\* download_status is "Complete" or "Error" and stays so.
C34_StatusTerminalAfterLoad ==
    load_pc \in {"done", "failed"} => download_status \in {"Complete", "Error"}

\* C35: every assistant turn of chat_history directly follows the user turn
\* of the same request.
C35_AssistantFollowsItsUser ==
    \A i \in DOMAIN chat_history :
        chat_history[i].role = "assistant"
            => i > 1 /\ chat_history[i - 1] = UserTurn(chat_history[i].job)

\* C37: the ready flag is set only when self.pipe holds a pipeline; the flag
\* is never cleared and the pipeline never replaced afterwards, also when the
\* selected model changes; a process_response thread always finds a pipeline.
C37_ReadyMeansPipe ==
    /\ [](model_initialized => pipe # None)
    /\ [][model_initialized => model_initialized']_vars
    /\ [][pipe # None => pipe' = pipe]_vars
    /\ [](\A r \in Requests : InFlight(r) => pipe # None)

\* C37 witness: a process_response thread runs on the loaded pipeline after
\* the user has selected the other model.
C37_Witness ==
    /\ req[1] = "running"
    /\ model_initialized
    /\ pipe # None
    /\ selected_model # pipe

\* C38: every message that is not blank is on the screen at most once, and
\* a blank message schedules nothing and starts no thread.
C38_MessageShownOnce ==
    /\ [](\A r \in Requests :
              Cardinality({i \in DOMAIN conversation_history :
                              conversation_history[i] = <<"You", r>>}) <= 1)
    /\ [][\A r \in Requests :
              send_message(r, "blank") => UNCHANGED <<req, after_queue>>]_vars

\* C39: in the cache manager window, when no load_data thread runs and no
\* callback of the window is pending, every cached (repository, revision)
\* entry that can be read has exactly one row in the list.
C39_EachEntryListedOnce ==
    (/\ manager_open
     /\ \A i \in Loads : load_data[i] = "idle"
     /\ \A k \in DOMAIN after_queue : after_queue[k].job # ManagerJob
     /\ status_var[1] = "Loaded"
     /\ cache_dir_exists /\ scan_ok /\ unreadable = {})
        => \A e \in cache :
               Cardinality({k \in DOMAIN tree :
                               /\ tree[k].repo_id = e[1]
                               /\ tree[k].revision = e[2]}) = 1

\* C36: under FairLive every accepted request reaches its end: the
\* assistant turn is in chat_history and the response is scheduled for the
\* screen, or the error status is scheduled.
C36_AcceptedRequestEnds ==
    \A r \in Requests :
        (req[r] = "accepted") ~>
            \/ /\ req[r] = "succeeded"
               /\ \E i \in DOMAIN chat_history : chat_history[i] = AssistantTurn(r)
               /\ \E k \in DOMAIN after_queue : after_queue[k] = ResponseEvent(r)
            \/ /\ req[r] = "failed"
               /\ \E k \in DOMAIN after_queue :
                      after_queue[k] = StatusEvent(r, "error")

\* C36 witness: the runtime call raised after the heartbeat timer was armed
\* and the error status is the next callback of the main loop.
C36_Witness ==
    /\ req[1] = "failed"
    /\ heartbeat[1] = "armed"
    /\ after_queue # << >>
    /\ Head(after_queue) = StatusEvent(1, "error")

\* ------------------------------------------------------------------------
\* The first-run wizard

\* C40: the step of the wizard stays within 0 .. 3; first_run_completed is
\* set only by finishing the wizard from the last step, and a wizard that was
\* quit before the last step leaves the first run not completed.
C40_WizardStepsAndCompletion ==
    /\ [](current_step \in 0 .. 3)
    /\ [][(config'.first_run_completed /\ ~config.first_run_completed)
              => /\ current_step = 3
                 /\ wizard_open /\ ~wizard_open'
                 /\ on_complete' = "True"]_vars
    /\ [](on_complete = "False" => /\ ~config.first_run_completed
                                   /\ current_step < 3)

\* C40 witness: the wizard was finished from the last step after a key was
\* saved on the API key step.
C40_Witness ==
    /\ ~wizard_open
    /\ current_step = 3
    /\ on_complete = "True"
    /\ config.first_run_completed
    /\ config.api_key_stored

====
